---- MODULE Spec2Model ----
(***************************************************************************)
(* Model of scripts/h2画像生成/generate_h2_images.py.                      *)
(*                                                                         *)
(* Text is modelled as a sequence of atoms.  An atom is one character      *)
(* (" ", "\n", ":", "#", "\\", a letter) or an opaque run of characters    *)
(* that the code never looks inside (a word such as "avoid", the fixed     *)
(* sentences of the prompt, "images/", ".png", ".jpg").                    *)
(***************************************************************************)
EXTENDS Integers, Sequences, FiniteSets, TLC

VARIABLES
    \* ---- yaml_to_prompt (SpecPrompt)
    yaml_text,      \* the argument yaml_text
    currency_mode,  \* the argument currency_mode
    prompt_en,      \* the returned string, <<>> before the call
    \* ---- update_html (SpecHtml)
    doc,            \* content of the HTML file
    doc0,           \* content before the first update_html
    doc1,           \* content after the first update_html
    map,            \* the dict alt_to_src handed to update_html (insertion order)
    napplied,       \* number of update_html calls made
    nraised,        \* number of those calls that raised re.error
    \* ---- generate_with_google_genai (SpecGen)
    g_project,      \* os.environ.get("GOOGLE_CLOUD_PROJECT"): "unset", "" or a name
    g_init,         \* whether the vertexai import and vertexai.init succeed
    g_script,       \* what each of the models does when it is asked, in order
    g_result,       \* the call's result, or NotCalled
    \* ---- main (Spec, SpecRerun)
    pc,             \* where main is: "start", "config", "loop", "done", "exit1", "crash"
    argv,           \* "none": no argument; "notdir": not a directory; "dir"
    patHtml,        \* the files of kw_dir that match the glob for first drafts
    altHtml,        \* whether the alternative first draft exists in kw_dir
    promptsExists,  \* whether kw_dir/image_prompts.yaml exists
    imagesKind,     \* kw_dir/images: "absent", "dir" or "file"
    created,        \* whether this run created kw_dir/images
    project,        \* GOOGLE_CLOUD_PROJECT of the process
    htmlText,       \* content of each HTML file of kw_dir
    prompts,        \* prompts_data["prompts"]: the records of the prompt file
    files,          \* the files of kw_dir/images, each <<id, suffix>>
    cfg,            \* what load_config returned, or NoConfig
    i,              \* 1-based index of the record the loop is at
    alt_to_src,     \* the dict alt_to_src, in insertion order
    passed,         \* the dict update_html was called with, <<>> if not called
    log,            \* per processed record: index, branch, success, file named
    written,        \* <<k, file>>: processing record k wrote the file
    apiCalled,      \* whether this run asked any model
    msg,            \* the error message printed before exit, or "none"
    run,            \* number of the run of the script on kw_dir
    prevOK          \* ids generated by the API and compressed in earlier runs

promptVars == <<yaml_text, currency_mode, prompt_en>>
htmlVars   == <<doc, doc0, doc1, map, napplied, nraised>>
genVars    == <<g_project, g_init, g_script, g_result>>
mainVars   == <<pc, argv, patHtml, altHtml, promptsExists, imagesKind, created,
                project, htmlText, prompts, files, cfg, i, alt_to_src, passed,
                log, written, apiCalled, msg, run, prevOK>>
vars       == <<promptVars, htmlVars, genVars, mainVars>>

(***************************************************************************)
(* Bounds                                                                  *)
(***************************************************************************)
MaxLines == 3        \* lines of a yaml_text
MaxDocLen == 2       \* tokens of an HTML text given to update_html alone
MaxMapLen == 2       \* entries of a dict given to update_html alone
MaxApply == 2        \* update_html calls on one file
MaxRecords == 2      \* records of a prompt file
MaxRuns == 2         \* runs of the script on one directory

(***************************************************************************)
(* Generic string helpers (Python str methods)                             *)
(***************************************************************************)
IsSpace(c) == c \in {" ", "\n"}

RECURSIVE LStrip(_)
LStrip(s) == IF s # <<>> /\ IsSpace(Head(s)) THEN LStrip(Tail(s)) ELSE s

RECURSIVE RStrip(_)
RStrip(s) == IF s # <<>> /\ IsSpace(s[Len(s)])
             THEN RStrip(SubSeq(s, 1, Len(s) - 1)) ELSE s

\* str.strip()
Strip(s) == RStrip(LStrip(s))

\* index of the first occurrence of c in s, 0 when there is none
RECURSIVE Find(_, _)
Find(s, c) == IF s = <<>> THEN 0
              ELSE IF Head(s) = c THEN 1
              ELSE LET r == Find(Tail(s), c) IN IF r = 0 THEN 0 ELSE r + 1

\* str.split(sep): always at least one field
RECURSIVE Split(_, _)
Split(s, sep) ==
    LET p == Find(s, sep) IN
    IF p = 0 THEN <<s>>
    ELSE <<SubSeq(s, 1, p - 1)>> \o Split(SubSeq(s, p + 1, Len(s)), sep)

\* sep.join(parts)
RECURSIVE Join(_, _)
Join(parts, sep) ==
    IF parts = <<>> THEN <<>>
    ELSE IF Len(parts) = 1 THEN parts[1]
    ELSE parts[1] \o sep \o Join(Tail(parts), sep)

LowerChar(c) == CASE c = "AVOID" -> "avoid"
                  [] c = "K"     -> "k"
                  [] OTHER       -> c

\* str.lower()
Lower(s) == [j \in 1..Len(s) |-> LowerChar(s[j])]

(***************************************************************************)
(* yaml_to_prompt                                                          *)
(***************************************************************************)
QUALITY  == "4K HDR professional photograph, sharp focus, high detail, controlled studio lighting, "
ASPECT   == "16:9 aspect ratio. "
BANKNOTE == "Japanese 10000 yen banknote, ten thousand yen note, highest denomination. NOT 1000 yen, NOT 5000 yen. NOT US dollar. "
DONOT    == "Do not reproduce any real currency design, logos, or identifiable security features. "
ABSTRACT == "Abstract representation only."

\* key, val = line.split(":", 1): the text before and after the first colon
SplitFirst(line) ==
    LET p == Find(line, ":") IN
    <<SubSeq(line, 1, p - 1), SubSeq(line, p + 1, Len(line))>>

\* LineParts with the key compared as written (no .lower())
LineParts_NoLower(rawline) ==
    LET line == Strip(rawline) IN
    IF Find(line, ":") # 0 /\ ~(line # <<>> /\ Head(line) = "#")
    THEN LET kv  == SplitFirst(line)
             key == Strip(kv[1])
             val == Strip(kv[2])
         IN  IF key = <<"avoid">> THEN <<>>
             ELSE IF key # <<>> /\ val # <<>> THEN <<val>>
             ELSE <<>>
    ELSE <<>>

\* one pass of the for loop: what the line appends to parts
LineParts(rawline) ==
    LET line == Strip(rawline) IN
    IF Find(line, ":") # 0 /\ ~(line # <<>> /\ Head(line) = "#")
    THEN LET kv  == SplitFirst(line)
             key == Lower(Strip(kv[1]))
             val == Strip(kv[2])
         IN  IF key = <<"avoid">> THEN <<>>
             ELSE IF key # <<>> /\ val # <<>> THEN <<val>>
             ELSE <<>>
    ELSE <<>>

RECURSIVE PartsOf(_)
PartsOf(lines) ==
    IF lines = <<>> THEN <<>>
    ELSE LineParts(Head(lines)) \o PartsOf(Tail(lines))

yaml_to_prompt(text, mode) ==
    LET lines  == Split(Strip(text), "\n")
        base   == Join(PartsOf(lines), <<" ">>)
        prefix == IF mode THEN <<BANKNOTE>> ELSE <<>>
    IN  <<QUALITY, ASPECT>> \o prefix \o base \o <<" ">> \o <<DONOT, ABSTRACT>>

(***************************************************************************)
(* SpecPrompt: yaml_to_prompt applied to bounded inputs                    *)
(***************************************************************************)
\* The line shapes the inputs are built from.
LineShapes ==
    { <<"k", ":", "v">>,
      <<" ", "k", " ", ":", " ", "w", " ">>,
      <<"K", ":", "v", " ", "w">>,
      <<"k", ":", "v", ":", "w">>,
      <<"k", ":", "#", "v">>,
      <<"#", "k", ":", "v">>,
      <<" ", "#", "k", ":", "v">>,
      <<"avoid", ":", "v">>,
      <<" ", "AVOID", " ", ":", "w">>,
      <<"avoid", "k", ":", "w">>,
      <<":", "v">>,
      <<"k", ":", " ">>,
      <<"k", " ", "v">>,
      <<>>,
      <<" ">> }

LineLists == UNION { [1..n -> LineShapes] : n \in 0..MaxLines }

PromptIdle == yaml_text = <<>> /\ currency_mode = FALSE /\ prompt_en = <<>>

HtmlIdle ==
    /\ doc = <<>> /\ doc0 = <<>> /\ doc1 = <<>>
    /\ map = <<>> /\ napplied = 0 /\ nraised = 0

NotCalled == [ret |-> FALSE, calls |-> <<"-">>, wrote |-> "none"]

GenIdle ==
    /\ g_project = "unset" /\ g_init = TRUE /\ g_script = <<>>
    /\ g_result = NotCalled

NoConfig == [html_file |-> "-", prompts_file |-> "-", images_dir |-> "-"]

MainIdle ==
    /\ pc = "idle" /\ argv = "none"
    /\ patHtml = {} /\ altHtml = FALSE /\ promptsExists = FALSE
    /\ imagesKind = "absent" /\ created = FALSE
    /\ project = "unset" /\ htmlText = <<>> /\ prompts = <<>>
    /\ files = {} /\ cfg = NoConfig /\ i = 0
    /\ alt_to_src = <<>> /\ passed = <<>> /\ log = <<>> /\ written = {}
    /\ apiCalled = FALSE /\ msg = "none" /\ run = 0 /\ prevOK = {}

InitPrompt ==
    /\ \E ls \in LineLists : yaml_text = Join(ls, <<"\n">>)
    /\ currency_mode \in BOOLEAN
    /\ prompt_en = <<>>
    /\ HtmlIdle /\ GenIdle /\ MainIdle

CallYamlToPrompt ==
    /\ prompt_en = <<>>
    /\ prompt_en' = yaml_to_prompt(yaml_text, currency_mode)
    /\ UNCHANGED <<yaml_text, currency_mode, htmlVars, genVars, mainVars>>

NextPrompt == CallYamlToPrompt

SpecPrompt == InitPrompt /\ [][NextPrompt]_vars

(***************************************************************************)
(* C6 stated independently of the loop: the lines of the text, the line    *)
(* predicate and the value by quantification over positions.               *)
(***************************************************************************)
\* the positions just outside the lines of t: 0, every newline, Len(t)+1
Breaks(t) == {0, Len(t) + 1} \cup {p \in 1..Len(t) : t[p] = "\n"}

\* the lines of t, in order: the newline-free stretches between breaks
TextLines(t) ==
    LET B == Breaks(t)
        nth[k \in 1..Cardinality(B)] ==
            CHOOSE b \in B : Cardinality({c \in B : c < b}) = k - 1
    IN  [k \in 1..(Cardinality(B) - 1) |-> SubSeq(t, nth[k] + 1, nth[k + 1] - 1)]

\* the line without its leading and trailing blanks
Trimmed(l) ==
    LET ink == {p \in 1..Len(l) : l[p] # " "} IN
    IF ink = {} THEN <<>>
    ELSE SubSeq(l, CHOOSE a \in ink : \A b \in ink : a <= b,
                   CHOOSE a \in ink : \A b \in ink : a >= b)

FirstColon(l) == CHOOSE p \in 1..Len(l) : l[p] = ":" /\ \A q \in 1..(p - 1) : l[q] # ":"

HasColon(l) == \E p \in 1..Len(l) : l[p] = ":"

KeyText(l) == Trimmed(SubSeq(Trimmed(l), 1, FirstColon(Trimmed(l)) - 1))

ValueText(l) == Trimmed(SubSeq(Trimmed(l), FirstColon(Trimmed(l)) + 1, Len(Trimmed(l))))

IsAvoid(k) == Len(k) = 1 /\ k[1] \in {"avoid", "AVOID"}

\* the line contributes its value
Contributes(l) ==
    /\ HasColon(l)
    /\ Trimmed(l)[1] # "#"
    /\ KeyText(l) # <<>>
    /\ ~IsAvoid(KeyText(l))
    /\ ValueText(l) # <<>>

\* the values of the contributing lines, single spaces between them
RECURSIVE SpaceJoined(_)
SpaceJoined(ls) ==
    IF ls = <<>> THEN <<>>
    ELSE LET front == SpaceJoined(SubSeq(ls, 1, Len(ls) - 1))
         IN  IF front = <<>> THEN ValueText(ls[Len(ls)])
             ELSE front \o <<" ">> \o ValueText(ls[Len(ls)])

\* C6: the returned prompt is the quality prefix, then "16:9 aspect ratio. ",
\* then the banknote prefix iff currency_mode, then the trimmed values of
\* exactly the (trimmed) lines that hold a colon, do not start with '#', have
\* a non-empty key other than "avoid" in any case and a non-empty value, in
\* line order with single spaces between them, then the fixed ending
\* " Do not reproduce ... Abstract representation only.".
C6_StringAssembly ==
    prompt_en # <<>> =>
        prompt_en = <<QUALITY, ASPECT>>
                    \o (IF currency_mode THEN <<BANKNOTE>> ELSE <<>>)
                    \o SpaceJoined(SelectSeq(TextLines(yaml_text), Contributes))
                    \o <<" ", DONOT, ABSTRACT>>

\* a call with the banknote prefix, two contributing lines and an avoid line
C6_Witness ==
    /\ prompt_en # <<>>
    /\ currency_mode
    /\ Len(SelectSeq(TextLines(yaml_text), Contributes)) = 2
    /\ \E k \in 1..Len(TextLines(yaml_text)) :
          /\ HasColon(TextLines(yaml_text)[k])
          /\ KeyText(TextLines(yaml_text)[k]) = <<"AVOID">>

(***************************************************************************)
(* update_html                                                             *)
(*                                                                         *)
(* An HTML text is a sequence of tokens:                                   *)
(*   [t |-> "img", src |-> s, alt |-> a]                                   *)
(*       the text <img class="aligncenter size-full" src="s" alt="a"       *)
(*       (a placeholder when s is empty)                                   *)
(*   [t |-> "imgx", src |-> s, alt |-> a]                                  *)
(*       an img tag with the same attributes but another class             *)
(*   [t |-> "txt", src |-> <<>>, alt |-> <<>>]   any other text            *)
(* Attribute values hold no double quote, so the literal pattern of        *)
(* update_html matches exactly the "img" tokens with an empty src and the  *)
(* alt of the key.                                                         *)
(***************************************************************************)
Img(s, a)  == [t |-> "img",  src |-> s, alt |-> a]
ImgX(s, a) == [t |-> "imgx", src |-> s, alt |-> a]
Txt        == [t |-> "txt",  src |-> <<>>, alt |-> <<>>]

\* re's replacement template: \\ is one backslash, \n a newline, a backslash
\* before another ASCII letter is an error ("bad escape"), a backslash before
\* anything else stays.  s is followed by a double quote in the template.
BadEscape(s) ==
    \E p \in 1..(Len(s) - 1) :
        /\ s[p] = "\\" /\ s[p + 1] = "x"
        \* the backslash at p is not itself escaped by the one before it
        /\ Cardinality({q \in 1..p : \A r \in q..p : s[r] = "\\"}) % 2 = 1

RECURSIVE Expand(_)
Expand(s) ==
    IF s = <<>> THEN <<>>
    ELSE IF Head(s) # "\\" \/ Len(s) = 1 THEN <<Head(s)>> \o Expand(Tail(s))
    ELSE CASE s[2] = "\\" -> <<"\\">> \o Expand(Tail(Tail(s)))
           [] s[2] = "n"  -> <<"\n">> \o Expand(Tail(Tail(s)))
           [] OTHER       -> <<"\\", s[2]>> \o Expand(Tail(Tail(s)))

\* position of the first placeholder with this alt, 0 when there is none
RECURSIVE FirstMatch(_, _)
FirstMatch(text, alt) ==
    IF text = <<>> THEN 0
    ELSE IF Head(text) = Img(<<>>, alt) THEN 1
    ELSE LET r == FirstMatch(Tail(text), alt) IN IF r = 0 THEN 0 ELSE r + 1

\* re.sub(pattern, replacement, text, count=1) for one (alt, src)
SubOnce(text, alt, src) ==
    LET p == FirstMatch(text, alt) IN
    IF p = 0 THEN text
    ELSE [text EXCEPT ![p] = Img(Expand(src), Expand(alt))]

\* the for loop over alt_to_src.items(); m is a sequence of <<alt, src>>
RECURSIVE SubAll(_, _)
SubAll(text, m) ==
    IF m = <<>> THEN text
    ELSE SubAll(SubOnce(text, m[1][1], m[1][2]), Tail(m))

\* re.sub compiles the template before it searches: one bad template makes
\* the call raise, and write_text is not reached
UpdateRaises(m) == \E k \in 1..Len(m) : BadEscape(m[k][2]) \/ BadEscape(m[k][1])

\* the file content after update_html(html_file, m)
update_html(text, m) == IF UpdateRaises(m) THEN text ELSE SubAll(text, m)

(***************************************************************************)
(* SpecHtml: update_html applied, up to MaxApply times, to bounded inputs  *)
(***************************************************************************)
HtmlAlts == { <<"x">>, <<"n">>, <<"\\", "n">>, <<"\\", "\\">>, <<"\\", "x">> }
HtmlSrcs == { <<"images/", "1", ".jpg">>, <<"images/", "2", ".png">> }

Tokens == {Txt, ImgX(<<>>, <<"x">>)}
          \cup {Img(<<>>, a) : a \in HtmlAlts}
          \cup {Img(<<"images/", "1", ".jpg">>, a) : a \in {<<"x">>, <<"n">>}}

Docs == UNION { [1..n -> Tokens] : n \in 0..MaxDocLen }

Entries == HtmlAlts \X HtmlSrcs

\* a dict: no alt twice
Maps == { m \in UNION { [1..n -> Entries] : n \in 1..MaxMapLen } :
            \A j, k \in 1..Len(m) : j # k => m[j][1] # m[k][1] }

InitHtml ==
    /\ doc \in Docs
    /\ doc0 = doc /\ doc1 = doc
    /\ map \in Maps
    /\ napplied = 0 /\ nraised = 0
    /\ PromptIdle /\ GenIdle /\ MainIdle

CallUpdateHtml ==
    /\ napplied < MaxApply
    /\ napplied' = napplied + 1
    /\ nraised' = IF UpdateRaises(map) THEN nraised + 1 ELSE nraised
    /\ doc' = update_html(doc, map)
    /\ doc1' = IF napplied = 0 THEN doc' ELSE doc1
    /\ UNCHANGED <<doc0, map, promptVars, genVars, mainVars>>

NextHtml == CallUpdateHtml

SpecHtml == InitHtml /\ [][NextHtml]_vars

Keys(m) == {m[k][1] : k \in 1..Len(m)}
Lookup(m, a) == m[CHOOSE k \in 1..Len(m) : m[k][1] = a][2]

\* C1 (as claimed): applying update_html twice with the same map leaves the
\* file exactly as applying it once does.
C1_Idempotent == napplied >= 2 => doc = doc1

\* C4 (as claimed): after one update_html, a token differs from the original
\* only if it was the first placeholder of the exact form whose alt is a key
\* of the map, and it then carries the mapped src and the same alt.
C4_OnlyMatchedPlaceholders ==
    napplied = 1 =>
        /\ Len(doc) = Len(doc0)
        /\ \A p \in 1..Len(doc) :
              doc[p] # doc0[p] =>
                  /\ doc0[p].t = "img" /\ doc0[p].src = <<>>
                  /\ doc0[p].alt \in Keys(map)
                  /\ \A q \in 1..(p - 1) : doc0[q] # doc0[p]
                  /\ doc[p] = Img(Lookup(map, doc0[p].alt), doc0[p].alt)

(***************************************************************************)
(* generate_with_google_genai                                              *)
(*                                                                         *)
(* What a model does when asked:                                           *)
(*   "raise"     from_pretrained or generate_images raises                 *)
(*   "empty"     the response is empty or holds no image                   *)
(*   "image"     the response holds an image and save() writes the .png    *)
(*   "savefail"  the response holds an image and save() raises, leaving    *)
(*               no file                                                   *)
(*   "savepart"  the response holds an image and save() raises, leaving    *)
(*               an incomplete .png                                        *)
(* The result is [ret, calls, wrote]: the returned value, the model        *)
(* identifiers asked in order, and what the call left at the .png path     *)
(* ("none", "partial" or "image").                                         *)
(***************************************************************************)
MODELS == << "imagen-3.0-generate-002",
             "imagen-3.0-generate-001",
             "imagen-3.0-fast-generate-001",
             "imagegeneration@006",
             "imagegeneration@002" >>

Behaviours == {"raise", "empty", "image", "savefail", "savepart"}

\* `if not project`
ProjectMissing(p) == p \in {"unset", ""}

\* the for loop with `break` in place of `continue` in the except clause
RECURSIVE TryModels_Break(_, _, _, _)
TryModels_Break(script, k, calls, wrote) ==
    IF k > Len(MODELS) THEN [ret |-> FALSE, calls |-> calls, wrote |-> wrote]
    ELSE LET c == Append(calls, MODELS[k]) IN
         CASE script[k] = "image"    -> [ret |-> TRUE, calls |-> c, wrote |-> "image"]
           [] script[k] = "savepart" -> [ret |-> FALSE, calls |-> c, wrote |-> "partial"]
           [] script[k] = "empty"    -> TryModels_Break(script, k + 1, c, wrote)
           [] OTHER                  -> [ret |-> FALSE, calls |-> c, wrote |-> wrote]

\* the for loop over the model identifiers, from the k-th on
RECURSIVE TryModels(_, _, _, _)
TryModels(script, k, calls, wrote) ==
    IF k > Len(MODELS) THEN [ret |-> FALSE, calls |-> calls, wrote |-> wrote]
    ELSE LET c == Append(calls, MODELS[k]) IN
         CASE script[k] = "image"    -> [ret |-> TRUE, calls |-> c, wrote |-> "image"]
           [] script[k] = "savepart" -> TryModels(script, k + 1, c, "partial")
           [] OTHER                  -> TryModels(script, k + 1, c, wrote)

generate_with_google_genai(proj, init, script) ==
    IF ProjectMissing(proj)
    THEN [ret |-> FALSE, calls |-> <<>>, wrote |-> "none"]
    ELSE IF ~init
    THEN [ret |-> FALSE, calls |-> <<>>, wrote |-> "none"]
    ELSE TryModels(script, 1, <<>>, "none")

(***************************************************************************)
(* SpecGen: one call of generate_with_google_genai                         *)
(***************************************************************************)
Scripts == [1..Len(MODELS) -> Behaviours]

InitGen ==
    /\ g_project \in {"unset", "", "my-project"}
    /\ g_init \in BOOLEAN
    /\ g_script \in Scripts
    /\ g_result = NotCalled
    /\ PromptIdle /\ HtmlIdle /\ MainIdle

CallGenerate ==
    /\ g_result = NotCalled
    /\ g_result' = generate_with_google_genai(g_project, g_init, g_script)
    /\ UNCHANGED <<g_project, g_init, g_script, promptVars, htmlVars, mainVars>>

NextGen == CallGenerate

SpecGen == InitGen /\ [][NextGen]_vars

\* the models that return a non-empty image list / whose image is also saved
Returning(script) == {k \in 1..Len(MODELS) : script[k] \in {"image", "savefail", "savepart"}}
Saving(script)    == {k \in 1..Len(MODELS) : script[k] = "image"}
Least(S)          == CHOOSE k \in S : \A j \in S : k <= j

\* the models are asked in the listed order, each at most once
InListedOrder(calls) ==
    /\ Len(calls) <= Len(MODELS)
    /\ \A k \in 1..Len(calls) : calls[k] = MODELS[k]

\* C8 (as claimed): with the project set and Vertex AI initialised, the
\* models are asked in the listed order, once each; the call returns True
\* right after the first model that returns a non-empty image list, with the
\* image at the .png path and no later model asked; it returns False with no
\* file written when no model returns an image; with the project unset it
\* returns False without asking any model.
C8_AsClaimed ==
    g_result # NotCalled =>
        /\ InListedOrder(g_result.calls)
        /\ ProjectMissing(g_project) => ~g_result.ret /\ g_result.calls = <<>>
        /\ (~ProjectMissing(g_project) /\ g_init) =>
              IF Returning(g_script) # {}
              THEN /\ g_result.ret
                   /\ Len(g_result.calls) = Least(Returning(g_script))
                   /\ g_result.wrote = "image"
              ELSE /\ ~g_result.ret
                   /\ Len(g_result.calls) = Len(MODELS)
                   /\ g_result.wrote = "none"

\* C8 (amended): as claimed, with "returns a non-empty image list" read as
\* "returns a non-empty image list that save() writes": a model whose image
\* cannot be saved is passed over like one that raises, and False is
\* returned with no file written when every model raises or returns no
\* image; a failing Vertex AI initialisation returns False with no model
\* asked.
C8_FirstSavedImage ==
    g_result # NotCalled =>
        /\ InListedOrder(g_result.calls)
        /\ ProjectMissing(g_project) => ~g_result.ret /\ g_result.calls = <<>>
        /\ (~ProjectMissing(g_project) /\ ~g_init) =>
              ~g_result.ret /\ g_result.calls = <<>> /\ g_result.wrote = "none"
        /\ (~ProjectMissing(g_project) /\ g_init) =>
              IF Saving(g_script) # {}
              THEN /\ g_result.ret
                   /\ Len(g_result.calls) = Least(Saving(g_script))
                   /\ g_result.wrote = "image"
              ELSE /\ ~g_result.ret
                   /\ Len(g_result.calls) = Len(MODELS)
                   /\ Returning(g_script) = {} => g_result.wrote = "none"

\* a call where the first model raises, the second returns an image that
\* cannot be saved, the third returns nothing, the fourth returns an image
\* that is saved and the fifth would too
C8_Witness ==
    /\ g_result # NotCalled
    /\ g_project = "my-project" /\ g_init
    /\ g_script = <<"raise", "savefail", "empty", "image", "image">>
    /\ g_result.ret
    /\ g_result.calls = SubSeq(MODELS, 1, 4)

(***************************************************************************)
(* load_config                                                             *)
(***************************************************************************)
\* file names of kw_dir: the candidates for the glob "初稿：*.html" (one is
\* kept: with several matches html_files[0] is whichever the file system
\* lists first, and it matches the glob all the same), and the alternative
\* draft "初稿_新.html"
PatNames    == {"shoko:a.html"}
ALT_HTML    == "shoko_shin.html"
PROMPTS     == "image_prompts.yaml"
IMAGES      == "images"

\* load_config that prefers the alternative draft
load_config_AltFirst(pat, alt, pex, kind) ==
    LET html_files == IF alt THEN {ALT_HTML} ELSE pat
    IN  IF html_files = {} THEN [raise |-> "FileNotFoundError", msg |-> "nohtml",
                                 htmls |-> {}, mkdir |-> FALSE]
        ELSE IF ~pex THEN [raise |-> "FileNotFoundError", msg |-> "noprompts",
                           htmls |-> {}, mkdir |-> FALSE]
        ELSE IF kind = "file" THEN [raise |-> "FileExistsError", msg |-> "none",
                                    htmls |-> {}, mkdir |-> FALSE]
        ELSE [raise |-> "none", msg |-> "none", htmls |-> html_files,
              mkdir |-> (kind = "absent")]

\* load_config that creates images/ before it looks for the files
load_config_MkdirFirst(pat, alt, pex, kind) ==
    LET html_files == IF pat # {} THEN pat ELSE IF alt THEN {ALT_HTML} ELSE {}
    IN  IF kind = "file" THEN [raise |-> "FileExistsError", msg |-> "none",
                               htmls |-> {}, mkdir |-> FALSE]
        ELSE IF html_files = {} THEN [raise |-> "FileNotFoundError", msg |-> "nohtml",
                                      htmls |-> {}, mkdir |-> (kind = "absent")]
        ELSE IF ~pex THEN [raise |-> "FileNotFoundError", msg |-> "noprompts",
                           htmls |-> {}, mkdir |-> (kind = "absent")]
        ELSE [raise |-> "none", msg |-> "none", htmls |-> html_files,
              mkdir |-> (kind = "absent")]

\* load_config(kw_dir) on a directory where pat are the glob's matches, alt
\* and pex say whether the alternative draft and the prompt file exist, and
\* kind is what images is.  htmls holds the files html_files[0] can be (the
\* glob's order is the file system's); mkdir says whether images/ is created.
load_config(pat, alt, pex, kind) ==
    LET html_files == IF pat # {} THEN pat ELSE IF alt THEN {ALT_HTML} ELSE {}
    IN  IF html_files = {} THEN [raise |-> "FileNotFoundError", msg |-> "nohtml",
                                 htmls |-> {}, mkdir |-> FALSE]
        ELSE IF ~pex THEN [raise |-> "FileNotFoundError", msg |-> "noprompts",
                           htmls |-> {}, mkdir |-> FALSE]
        \* mkdir(exist_ok=True) on a path that is a regular file
        ELSE IF kind = "file" THEN [raise |-> "FileExistsError", msg |-> "none",
                                    htmls |-> {}, mkdir |-> FALSE]
        ELSE [raise |-> "none", msg |-> "none", htmls |-> html_files,
              mkdir |-> (kind = "absent")]

(***************************************************************************)
(* compress_image                                                          *)
(***************************************************************************)
Png(id) == <<id, ".png">>
Jpg(id) == <<id, ".jpg">>

\* compress_image(input_path) where ok says whether PIL opens the image and
\* saves the JPEG: the returned path and the files afterwards.  (A failure
\* returns input_path and removes nothing.)
compress_image(fs, id, ok) ==
    IF ok THEN [path |-> Jpg(id), files |-> (fs \cup {Jpg(id)}) \ {Png(id)}]
    ELSE [path |-> Png(id), files |-> fs]

(***************************************************************************)
(* main                                                                    *)
(*                                                                         *)
(* The prompt file is taken to be well formed: a list of records that each *)
(* hold id, alt, h2 and yaml.  The yaml of a record only shapes the prompt *)
(* string sent to the API, whose answer is any of Behaviours, so records   *)
(* keep id, alt and use_fixed.  DAIKICHI_IMAGE.exists() is read from the   *)
(* file system each time it is evaluated.                                  *)
(***************************************************************************)
Ids     == {"1", "2"}
RecAlts == { <<"x">>, <<"n">> }
Records == [id : Ids, alt : RecAlts, use_fixed : BOOLEAN]
RecordLists == UNION { [1..n -> Records] : n \in 0..MaxRecords }

\* the HTML draft: two placeholders for the first alt, one for the second
MainDoc == << Img(<<>>, <<"x">>), Txt, Img(<<>>, <<"x">>), Img(<<>>, <<"n">>) >>

\* what a call of generate_with_google_genai can return, per project: the
\* results over every initialisation outcome and every script
GenResults ==
    [ p \in {"unset", "my-project"} |->
        { generate_with_google_genai(p, ini, sc) : ini \in BOOLEAN, sc \in Scripts } ]

\* alt_to_src[alt] = rel_path
SetEntry(m, alt, src) ==
    IF \E k \in 1..Len(m) : m[k][1] = alt
    THEN [k \in 1..Len(m) |-> IF m[k][1] = alt THEN <<alt, src>> ELSE m[k]]
    ELSE Append(m, <<alt, src>>)

RelPath(f) == <<"images/", f[1], f[2]>>

HtmlFiles == patHtml \cup (IF altHtml THEN {ALT_HTML} ELSE {})

InitMain ==
    /\ pc = "start"
    /\ argv \in {"none", "notdir", "dir"}
    /\ IF argv = "dir"
       THEN /\ patHtml \in SUBSET PatNames
            /\ altHtml \in BOOLEAN
            /\ promptsExists \in BOOLEAN
            /\ imagesKind \in {"absent", "dir", "file"}
            /\ project \in {"unset", "my-project"}
            /\ IF promptsExists THEN prompts \in RecordLists ELSE prompts = <<>>
       ELSE /\ patHtml = {} /\ altHtml = FALSE /\ promptsExists = FALSE
            /\ imagesKind = "absent" /\ project = "unset" /\ prompts = <<>>
    /\ htmlText = [f \in HtmlFiles |-> MainDoc]
    /\ created = FALSE
    /\ files = {} /\ cfg = NoConfig /\ i = 0
    /\ alt_to_src = <<>> /\ passed = <<>> /\ log = <<>> /\ written = {}
    /\ apiCalled = FALSE /\ msg = "none" /\ run = 1 /\ prevOK = {}
    /\ PromptIdle /\ HtmlIdle /\ GenIdle

layoutVars == <<argv, patHtml, altHtml, promptsExists, project, prompts>>

\* main, lines 151-159: the argument checks
CheckArgs ==
    /\ pc = "start"
    /\ pc' = IF argv = "dir" THEN "config" ELSE "exit1"
    /\ msg' = CASE argv = "none"   -> "usage"
                [] argv = "notdir" -> "nodir"
                [] OTHER           -> msg
    /\ UNCHANGED <<layoutVars, imagesKind, created, htmlText, files, cfg, i,
                   alt_to_src, passed, log, written, apiCalled, run, prevOK>>
    /\ UNCHANGED <<promptVars, htmlVars, genVars>>

\* main, lines 168-178: load_config, the exit on FileNotFoundError, the
\* prompt file read, alt_to_src = {}
LoadConfig ==
    /\ pc = "config"
    /\ LET r == load_config(patHtml, altHtml, promptsExists, imagesKind) IN
       /\ imagesKind' = IF r.mkdir THEN "dir" ELSE imagesKind
       /\ created' = r.mkdir
       /\ msg' = r.msg
       /\ IF r.raise = "none"
          THEN /\ \E h \in r.htmls :
                    cfg' = [html_file |-> h, prompts_file |-> PROMPTS,
                            images_dir |-> IMAGES]
               /\ pc' = "loop"
               /\ i' = 1
          ELSE /\ pc' = IF r.raise = "FileNotFoundError" THEN "exit1" ELSE "crash"
               /\ UNCHANGED <<cfg, i>>
    /\ UNCHANGED <<layoutVars, htmlText, files, alt_to_src, passed, log,
                   written, apiCalled, run, prevOK>>
    /\ UNCHANGED <<promptVars, htmlVars, genVars>>

\* AfterBody with `break` in place of the SKIP message
AfterBody_Break(branch, success, fs, called, cok) ==
    LET id == prompts[i].id
        c  == compress_image(fs, id, cok)
    IN  /\ files' = IF success THEN c.files ELSE fs
        /\ alt_to_src' = IF success
                         THEN SetEntry(alt_to_src, prompts[i].alt, RelPath(c.path))
                         ELSE alt_to_src
        /\ log' = Append(log, [idx |-> i, branch |-> branch, success |-> success,
                               out |-> IF success THEN c.path ELSE <<>>])
        /\ written' = written
                       \cup {<<i, f>> : f \in fs \ files}
                       \cup (IF success /\ cok THEN {<<i, Jpg(id)>>} ELSE {})
        /\ apiCalled' = (apiCalled \/ called)
        /\ i' = IF success THEN i + 1 ELSE Len(prompts) + 1

\* the state after the body of the for loop for prompts[i], given the branch
\* taken, whether the image is there (success), the files after that branch
\* and whether compress_image succeeds
AfterBody(branch, success, fs, called, cok) ==
    LET id == prompts[i].id
        c  == compress_image(fs, id, cok)
    IN  /\ files' = IF success THEN c.files ELSE fs
        /\ alt_to_src' = IF success
                         THEN SetEntry(alt_to_src, prompts[i].alt, RelPath(c.path))
                         ELSE alt_to_src
        /\ log' = Append(log, [idx |-> i, branch |-> branch, success |-> success,
                               out |-> IF success THEN c.path ELSE <<>>])
        /\ written' = written
                       \cup {<<i, f>> : f \in fs \ files}
                       \cup (IF success /\ cok THEN {<<i, Jpg(id)>>} ELSE {})
        /\ apiCalled' = (apiCalled \/ called)
        /\ i' = i + 1

\* main, lines 179-207: one pass of the for loop
ProcessRecord ==
    /\ pc = "loop"
    /\ i <= Len(prompts)
    /\ LET item == prompts[i]
           png  == Png(item.id)
       IN  \E fixedExists \in BOOLEAN, cok \in BOOLEAN :
             IF png \in files
             THEN AfterBody("existing", TRUE, files, FALSE, cok)
             ELSE IF item.use_fixed /\ fixedExists
             THEN AfterBody("fixed", TRUE, files \cup {png}, FALSE, cok)
             ELSE \E r \in GenResults[project] :
                    AfterBody("api", r.ret,
                              IF r.wrote = "none" THEN files ELSE files \cup {png},
                              r.calls # <<>>, cok)
    /\ UNCHANGED <<pc, layoutVars, imagesKind, created, htmlText, cfg, passed,
                   msg, run, prevOK>>
    /\ UNCHANGED <<promptVars, htmlVars, genVars>>

\* main, lines 209-213: update_html when alt_to_src is not empty
Finish ==
    /\ pc = "loop"
    /\ i > Len(prompts)
    /\ IF alt_to_src # <<>>
       THEN /\ htmlText' = [htmlText EXCEPT
                               ![cfg.html_file] = update_html(@, alt_to_src)]
            /\ passed' = alt_to_src
            /\ pc' = IF UpdateRaises(alt_to_src) THEN "crash" ELSE "done"
       ELSE /\ pc' = "done"
            /\ UNCHANGED <<htmlText, passed>>
    /\ UNCHANGED <<layoutVars, imagesKind, created, files, cfg, i, alt_to_src,
                   log, written, apiCalled, msg, run, prevOK>>
    /\ UNCHANGED <<promptVars, htmlVars, genVars>>

Next == CheckArgs \/ LoadConfig \/ ProcessRecord \/ Finish

Init == InitMain

Spec == Init /\ [][Next]_vars

\* the script is run again on the same directory
Restart ==
    /\ pc = "done"
    /\ run < MaxRuns
    /\ run' = run + 1
    /\ prevOK' = prevOK \cup {prompts[k].id : k \in
                     {j \in 1..Len(log) : /\ log[j].branch = "api"
                                          /\ log[j].success
                                          /\ log[j].out = Jpg(prompts[j].id)}}
    /\ pc' = "start"
    /\ created' = FALSE /\ cfg' = NoConfig /\ i' = 0
    /\ alt_to_src' = <<>> /\ passed' = <<>> /\ log' = <<>> /\ written' = {}
    /\ apiCalled' = FALSE /\ msg' = "none"
    /\ UNCHANGED <<layoutVars, imagesKind, htmlText, files>>
    /\ UNCHANGED <<promptVars, htmlVars, genVars>>

NextRerun == Next \/ Restart

SpecRerun == Init /\ [][NextRerun]_vars

(***************************************************************************)
(* Claims about main                                                       *)
(***************************************************************************)
FileOf(src) == <<src[2], src[3]>>

\* C2: a failing image generation is not fatal.  Once load_config has
\* returned, the run neither exits nor crashes and goes on after a record
\* that failed; the records are processed one by one in document order, all
\* of them by the end; and the dict given to update_html has an entry for an
\* alt exactly when a record with that alt succeeded.
C2_ApiFailureNotFatal ==
    cfg # NoConfig =>
        /\ pc \in {"loop", "done"}
        /\ pc = "loop" => Len(log) = i - 1
        /\ (pc = "loop" /\ log # <<>> /\ ~log[Len(log)].success) => ENABLED Next
        /\ Len(log) <= Len(prompts)
        /\ \A k \in 1..Len(log) : log[k].idx = k
        /\ pc = "done" =>
              /\ Len(log) = Len(prompts)
              /\ alt_to_src = passed
              /\ \A a \in RecAlts :
                    a \in Keys(passed) <=>
                        \E k \in 1..Len(prompts) : prompts[k].alt = a /\ log[k].success

\* a finished run whose first record failed in the API after a model was
\* asked and whose second record, with the same alt, succeeded
C2_Witness ==
    /\ pc = "done" /\ Len(prompts) = 2
    /\ log[1].branch = "api" /\ ~log[1].success /\ apiCalled
    /\ log[2].success
    /\ prompts[1].alt = prompts[2].alt
    /\ Keys(passed) = {prompts[1].alt}

\* C3: in a directory without an HTML draft or without image_prompts.yaml
\* the run goes no further than load_config: it ends in exit status 1 with
\* the error message printed, no model asked, no image file written, images/
\* not created and every HTML file as it was.
C3_MissingFilesExit ==
    (argv = "dir" /\ (HtmlFiles = {} \/ ~promptsExists)) =>
        /\ pc \in {"start", "config", "exit1"}
        /\ pc # "exit1" => ENABLED Next
        /\ pc = "exit1" => msg = (IF HtmlFiles = {} THEN "nohtml" ELSE "noprompts")
        /\ ~apiCalled /\ files = {} /\ written = {} /\ ~created
        /\ passed = <<>>
        /\ \A f \in HtmlFiles : htmlText[f] = MainDoc

\* the exit of a run in a directory that has a prompt file with records but
\* no HTML draft
C3_Witness ==
    /\ pc = "exit1" /\ argv = "dir"
    /\ HtmlFiles = {} /\ promptsExists /\ Len(prompts) > 0
    /\ imagesKind = "absent"

\* C5 (as claimed): no image file is written for two records, and no two
\* successful records are given the same output file.
C5_OneRecordPerFile ==
    /\ \A v, w \in written : v[2] = w[2] => v[1] = w[1]
    /\ \A k, l \in 1..Len(log) :
          (k # l /\ log[k].success /\ log[l].success) => log[k].out # log[l].out

\* C7: when load_config returns, the HTML file is a match of the glob if
\* there is one and the alternative draft only if there is none and it
\* exists; the prompt file is image_prompts.yaml, which exists; images/ is a
\* directory; and images/ is created only when both files were found.
C7_FileDiscovery ==
    /\ cfg # NoConfig =>
          /\ cfg.html_file \in HtmlFiles
          /\ patHtml # {} => cfg.html_file \in patHtml
          /\ cfg.html_file = ALT_HTML => (patHtml = {} /\ altHtml)
          /\ cfg.prompts_file = PROMPTS /\ promptsExists
          /\ cfg.images_dir = IMAGES /\ imagesKind = "dir"
    /\ created => (HtmlFiles # {} /\ promptsExists /\ imagesKind = "dir")

\* load_config has returned the glob's match in a directory that also holds
\* the alternative draft, and has created images/
C7_Witness ==
    /\ cfg # NoConfig
    /\ cfg.html_file \in patHtml /\ altHtml
    /\ created

\* C9 (as claimed): a record whose image the API generated and
\* compress_image compressed in an earlier run takes the "existing" branch.
C9_Reused ==
    \A k \in 1..Len(log) : prompts[k].id \in prevOK => log[k].branch = "existing"

\* C10 (as claimed): at the end of a run every file named by an entry given
\* to update_html exists in images/.
C10_SrcExists ==
    pc = "done" => \A k \in 1..Len(passed) : FileOf(passed[k][2]) \in files

====
